---- MODULE Spec2Model ----
(***************************************************************************)
(* Bar acquisition and reconciliation of BackTraderAlor:                   *)
(*   src/backtrader_alor/data.py   Data  (feed: start, _load, stop,        *)
(*                                 stream_bars, is_bar_valid, ...)         *)
(*   src/backtrader_alor/store.py  Store (new_bars inbox, notifs queue)    *)
(*                                                                         *)
(* A timestamp (bar["time"], provider.get_time()) counts whole seconds.    *)
(* A datetime counts instants since 1970-01-01 00:00, SecLen instants to   *)
(* the second: the local clock reads any instant, a timestamp converts to  *)
(* the first instant of its second.  A minute is MinuteLen seconds and a   *)
(* day two minutes, so that the time-of-day wraps inside the small ranges  *)
(* the model enumerates.                                                   *)
(* A bar keeps the fields the control flow reads: time, high, low.         *)
(***************************************************************************)
EXTENDS Integers, Sequences, FiniteSets, TLC

\* ------------------------------------------------------------------ bounds
\* instants per second (resolution of the local clock)
SecLen == 2
\* seconds per minute (scale of the clock)
MinuteLen == 2
\* largest bar timestamp the producers and the history deliver
MaxTime == 1
\* entries ever appended to Store.new_bars in one run
MaxEntries == 3
\* longest history list get_history returns to a pure-historical feed
MaxHist == 3
\* longest history list get_history returns to stream_bars
MaxFetch == 2
\* poll calls counted on a pure-historical feed
MaxPolls == 5
\* notifications ever put to Store.notifs in one run
MaxNotifs == 5
\* shift of utc_timestamp_to_msk_datetime, in seconds
MskOffset == 1
\* the calendar years the monthly bars open in: CalYears years from CalFirstYear
CalFirstYear == 2023
CalYears == 2

\* ------------------------------------------------------- program constants
\* time.min, the "no bound" value of sessionstart (data.py:206)
TimeMin == 0
\* timedelta(weeks=1) is seven days (data.py:239)
WeekDays == 7
\* the sentinel None of get_notifications (store.py:106); the notifications
\* themselves are tuples, numbered from 1 in the order they are put
Sentinel == 0

\* seconds per day, instants per day
DaySecs == 2 * MinuteLen
DayLen == DaySecs * SecLen
\* time(23, 59, 59, 999990), the "no bound" value of sessionend: later than
\* the time-of-day of every whole second, and reached by the local clock in the
\* last instant of the day (data.py:211)
SessionEndMax == DayLen - 1
\* the latest reading of the local clock, a datetime
\* the inbox entries of a long run of one feed
MaxRunEntries == MaxEntries + 2
MaxNow == (MaxTime + MskOffset + MinuteLen) * SecLen
\* datetime.min, earlier than every bar (data.py:51)
DatetimeMin == -1

None == "None"
Feeds == {"hist", "sub", "poll"}
\* TimeFrame.Ticks stands for every timeframe the code treats as seconds
TimeFrames == {"Ticks", "Seconds", "Minutes", "Days", "Weeks", "Months", "Years"}

\* the statuses of the feed notifications
DELAYED == "DELAYED"
CONNECTED == "CONNECTED"
LIVE == "LIVE"
DISCONNECTED == "DISCONNECTED"

\* ------------------------------------------------------------ feed params
\* Data.params and the timeframe/session parameters of the host's feed class,
\* for a feed on the given timeframe
Params(f, timeframe) ==
    CASE f = "hist" -> [live_bars |-> FALSE, schedule |-> FALSE, provider_name |-> "alor",
                        timeframe |-> timeframe, compression |-> 1,
                        sessionstart |-> TimeMin, sessionend |-> SessionEndMax,
                        four_price_doji |-> TRUE]
      [] f = "sub"  -> [live_bars |-> TRUE, schedule |-> FALSE, provider_name |-> "alor",
                        timeframe |-> timeframe, compression |-> 1,
                        sessionstart |-> SecLen, sessionend |-> DayLen - SecLen,
                        four_price_doji |-> FALSE]
      [] OTHER      -> [live_bars |-> TRUE, schedule |-> TRUE, provider_name |-> "alor",
                        timeframe |-> timeframe, compression |-> 1,
                        sessionstart |-> TimeMin, sessionend |-> SessionEndMax,
                        four_price_doji |-> TRUE]

\* the configurations of one run: the scheduled feed is on a minute, a month or
\* a year timeframe, the other feeds on minutes
Configurations ==
    {[f \in Feeds |-> Params(f, IF f = "poll" THEN timeframe ELSE "Minutes")] :
        timeframe \in {"Minutes", "Months", "Years"}}

VARIABLE
    feed_p              \* Data.p, the parameters each feed was constructed with

\* self.p of feed f
params(f) == feed_p[f]

\* ------------------------------------------------------------------- bars
Bars == [time : 0..MaxTime, high : {1, 2}, low : {1}]

\* provider.alor_price_to_price: the price in rubles of a raw price (a fixed
\* scale per instrument)
alor_price_to_price(raw) == raw * 10

\* datetime.time(): the time-of-day of a datetime
TimeOf(dt) == dt % DayLen

\* datetime.utcfromtimestamp: the datetime of a timestamp, in UTC
utcfromtimestamp(ts) == ts * SecLen

\* provider.utc_timestamp_to_msk_datetime: the datetime of a timestamp, in MSK
utc_timestamp_to_msk_datetime(ts) == (ts + MskOffset) * SecLen

\* Data.get_bar_open_date_time: MSK for intraday bars, UTC for daily and above
get_bar_open_date_time(p, bar) ==
    IF p.timeframe \in {"Minutes", "Seconds"}
    THEN utc_timestamp_to_msk_datetime(bar.time)
    ELSE utcfromtimestamp(bar.time)

\* the calendar of datetime (proleptic Gregorian); instant 0 is 1970-01-01 00:00,
\* as in datetime.utcfromtimestamp
\* the date of the day that lies z days after 1970-01-01
civil_from_days(z) ==
    LET z0 == z + 719468
        era == z0 \div 146097
        doe == z0 - era * 146097
        yoe == (doe - doe \div 1460 + doe \div 36524 - doe \div 146096) \div 365
        doy == doe - (365 * yoe + yoe \div 4 - yoe \div 100)
        mp == (5 * doy + 2) \div 153
        m == IF mp < 10 THEN mp + 3 ELSE mp - 9
    IN  [year |-> yoe + era * 400 + (IF m <= 2 THEN 1 ELSE 0),
         month |-> m,
         day |-> doy - (153 * mp + 2) \div 5 + 1]

\* the days from 1970-01-01 to the date (year, month, day)
days_from_civil(year, month, day) ==
    LET y == IF month <= 2 THEN year - 1 ELSE year
        era == y \div 400
        yoe == y - era * 400
        mp == IF month > 2 THEN month - 3 ELSE month + 9
        doy == (153 * mp + 2) \div 5 + day - 1
        doe == yoe * 365 + yoe \div 4 - yoe \div 100 + doy
    IN  era * 146097 + doe - 719468

\* dt.year, dt.month, dt.day of a datetime
DateOf(dt) == civil_from_days(dt \div DayLen)

\* datetime(year, month, day): midnight of that date
datetime(year, month, day) == days_from_civil(year, month, day) * DayLen

\* calendar.isleap
isleap(year) == year % 4 = 0 /\ (year % 100 # 0 \/ year % 400 = 0)

\* a faulty variant of MonthClose: the first day of the month that lies 31 days
\* after the open date
MonthClose_plus_31_days(dt_open, period) ==
    LET d == DateOf(dt_open + 31 * period * DayLen)
    IN  datetime(d.year, d.month, 1)

\* the Months branch of get_bar_close_date_time: year and month with carry, day 1
MonthClose(dt_open, period) ==
    LET d == DateOf(dt_open)
        year == d.year + (d.month + period - 1) \div 12
        month == ((d.month + period - 1) % 12) + 1
    IN  datetime(year, month, 1)

\* the Years branch of get_bar_close_date_time, dt_open.replace(year=...): the
\* same day and time of the year given, or ValueError raised when that year has
\* no such day (29 February)
YearClose(dt_open, period) ==
    LET d == DateOf(dt_open)
        year == d.year + period
    IN  IF d.month = 2 /\ d.day = 29 /\ ~isleap(year)
        THEN [raised |-> TRUE, dt |-> DatetimeMin]
        ELSE [raised |-> FALSE, dt |-> datetime(year, d.month, d.day) + TimeOf(dt_open)]

\* Data.get_bar_close_date_time (period = 1): the close time, or ValueError raised
get_bar_close_date_time(p, dt_open) ==
    CASE p.timeframe = "Days"    -> [raised |-> FALSE, dt |-> dt_open + DayLen]
      [] p.timeframe = "Weeks"   -> [raised |-> FALSE, dt |-> dt_open + WeekDays * DayLen]
      [] p.timeframe = "Months"  -> [raised |-> FALSE, dt |-> MonthClose(dt_open, 1)]
      [] p.timeframe = "Years"   -> YearClose(dt_open, 1)
      [] p.timeframe = "Minutes" ->
            [raised |-> FALSE, dt |-> dt_open + p.compression * MinuteLen * SecLen]
      [] OTHER                   -> [raised |-> FALSE, dt |-> dt_open + p.compression * SecLen]

\* a faulty variant of timeframe_to_timedelta: a month of thirty days, a year of
\* twelve such months
timeframe_to_timedelta_fixed_month(timeframe, compression) ==
    CASE timeframe = "Days"    -> [raised |-> FALSE, delta |-> DayLen]
      [] timeframe = "Weeks"   -> [raised |-> FALSE, delta |-> WeekDays * DayLen]
      [] timeframe = "Months"  -> [raised |-> FALSE, delta |-> 30 * DayLen]
      [] timeframe = "Years"   -> [raised |-> FALSE, delta |-> 360 * DayLen]
      [] timeframe = "Minutes" -> [raised |-> FALSE, delta |-> compression * MinuteLen * SecLen]
      [] OTHER                 -> [raised |-> FALSE, delta |-> compression * SecLen]

\* Store.timeframe_to_timedelta: a duration, or NotImplementedError raised
timeframe_to_timedelta(timeframe, compression) ==
    CASE timeframe = "Days"    -> [raised |-> FALSE, delta |-> DayLen]
      [] timeframe = "Weeks"   -> [raised |-> FALSE, delta |-> WeekDays * DayLen]
      [] timeframe = "Months"  -> [raised |-> TRUE, delta |-> 0]
      [] timeframe = "Years"   -> [raised |-> TRUE, delta |-> 0]
      [] timeframe = "Minutes" -> [raised |-> FALSE, delta |-> compression * MinuteLen * SecLen]
      [] OTHER                 -> [raised |-> FALSE, delta |-> compression * SecLen]

\* Data.get_alor_date_time_now: the exchange clock (provider.get_time, a
\* timestamp) once the last bar was received, the local clock otherwise
get_alor_date_time_now(lbr, get_time, local_now) ==
    IF lbr THEN utc_timestamp_to_msk_datetime(get_time) ELSE local_now

\* the outcomes of is_bar_valid
Valid == [raised |-> FALSE, value |-> TRUE]
Invalid == [raised |-> FALSE, value |-> FALSE]
ValueError == [raised |-> TRUE, value |-> FALSE]

\* a faulty variant of is_bar_valid: four-price dojis pass whatever the parameter says
is_bar_valid_doji_ignored(p, bar, time_market_now) ==
    LET dt_open == get_bar_open_date_time(p, bar)
        close == get_bar_close_date_time(p, dt_open)
        dt_close == close.dt
    IN  IF p.sessionstart # TimeMin /\ TimeOf(dt_open) < p.sessionstart THEN Invalid
        ELSE IF close.raised THEN ValueError
        ELSE IF p.sessionend # SessionEndMax /\ TimeOf(dt_close) > p.sessionend THEN Invalid
        ELSE IF dt_close > time_market_now /\ TimeOf(time_market_now) < p.sessionend
             THEN Invalid
        ELSE Valid

\* a faulty variant of is_bar_valid: every bar passes
is_bar_valid_always(p, bar, time_market_now) == Valid

\* Data.is_bar_valid: True, False, or the ValueError of get_bar_close_date_time
is_bar_valid(p, bar, time_market_now) ==
    LET dt_open == get_bar_open_date_time(p, bar)
        close == get_bar_close_date_time(p, dt_open)
        dt_close == close.dt
        high == alor_price_to_price(bar.high)
        low == alor_price_to_price(bar.low)
    IN  IF p.sessionstart # TimeMin /\ TimeOf(dt_open) < p.sessionstart THEN Invalid
        ELSE IF close.raised THEN ValueError
        ELSE IF p.sessionend # SessionEndMax /\ TimeOf(dt_close) > p.sessionend THEN Invalid
        ELSE IF ~p.four_price_doji /\ high = low THEN Invalid
        ELSE IF dt_close > time_market_now /\ TimeOf(time_market_now) < p.sessionend
             THEN Invalid
        ELSE Valid

\* the record _load writes to self.lines (datetime, high, low)
BarLines(p, bar) ==
    [datetime |-> get_bar_open_date_time(p, bar),
     high |-> alor_price_to_price(bar.high),
     low |-> alor_price_to_price(bar.low)]

NoLines == [datetime |-> DatetimeMin, high |-> 0, low |-> 0]

\* ------------------------------------------------------------------ inbox
\* an entry of Store.new_bars: dict(provider_name, response = dict(guid, data));
\* id is the identity of the dict object.
\* uuid4().hex / the guid bars_get_and_subscribe returns: a handle of the feed's own
GuidOf(f) == f

\* dict equality, which list.remove compares with
SameDict(a, b) ==
    a.provider_name = b.provider_name /\ a.guid = b.guid /\ a.data = b.data

\* a faulty variant of Matching: the guid is not compared
Matching_any_guid(provider_name, guid, b) ==
    b.provider_name = provider_name

\* the condition of the list comprehension of _load
Matching(provider_name, guid, b) ==
    b.provider_name = provider_name /\ b.guid = guid

\* [b for b in self.store.new_bars if ...]
ScanInbox(f, g, inbox) ==
    SelectSeq(inbox, LAMBDA b : Matching(params(f).provider_name, g, b))

RECURSIVE remove_all(_, _)
\* a faulty variant of list_remove: every equal entry goes
remove_all(s, e) ==
    IF s = <<>> THEN <<>>
    ELSE IF SameDict(Head(s), e) THEN remove_all(Tail(s), e)
    ELSE <<Head(s)>> \o remove_all(Tail(s), e)

\* a faulty variant of list_remove: the entry stays in the list
remove_nothing(s, e) == s

RECURSIVE remove_first(_, _)
remove_first(s, e) ==
    IF s = <<>> THEN <<>>
    ELSE IF SameDict(Head(s), e) THEN Tail(s)
    ELSE <<Head(s)>> \o remove_first(Tail(s), e)

\* list.remove(x): the first element equal to x goes
list_remove(s, e) == remove_first(s, e)

\* a faulty variant of FirstSelected: the selected entry with the earliest bar
\* time, the first of them in the selection
FirstSelected_earliest_time(sel) ==
    sel[CHOOSE i \in 1..Len(sel) :
            \A j \in 1..Len(sel) :
                \/ sel[i].data.time < sel[j].data.time
                \/ (sel[i].data.time = sel[j].data.time /\ i <= j)]

\* new_bar = new_bars[0]
FirstSelected(sel) == sel[1]

\* a faulty variant of LastBar: the bar taken is the last but one
LastBar_one_left(new_bars_sel) == Len(new_bars_sel) = 2

\* a faulty variant of LastBar: any non-empty selection counts as the last bar
LastBar_any(new_bars_sel) == Len(new_bars_sel) >= 1

\* self.last_bar_received = (len(new_bars) == 1)
LastBar(new_bars_sel) == Len(new_bars_sel) = 1

\* a faulty variant of IsStale: no bar is discarded
IsStale_never(dt_open, last) == FALSE

\* dt_open <= self.dt_last_open
IsStale(dt_open, last) == dt_open <= last

\* a faulty variant of HistoryHead: the newest bar first
HistoryHead_last(bars) == bars[Len(bars)]

\* bar = self.history_bars[0]
HistoryHead(bars) == bars[1]

\* a faulty variant of Transition: once live, the feed never goes back
Transition_one_way(lbr, live) ==
    IF lbr /\ ~live THEN [put |-> <<LIVE>>, live_mode |-> TRUE]
    ELSE [put |-> <<>>, live_mode |-> live]

\* a faulty variant of Transition: DELAYED is submitted and live_mode stays set
Transition_keeps_live(lbr, live) ==
    IF lbr /\ ~live THEN [put |-> <<LIVE>>, live_mode |-> TRUE]
    ELSE IF live /\ ~lbr THEN [put |-> <<DELAYED>>, live_mode |-> TRUE]
    ELSE [put |-> <<>>, live_mode |-> live]

\* the two-way transition of _load: the statuses to submit and the new live_mode
Transition(lbr, live) ==
    IF lbr /\ ~live THEN [put |-> <<LIVE>>, live_mode |-> TRUE]
    ELSE IF live /\ ~lbr THEN [put |-> <<DELAYED>>, live_mode |-> FALSE]
    ELSE [put |-> <<>>, live_mode |-> live]

\* Store.put_notification: the message goes to the end of Store.notifs
Store_put_notification(q, msg) == Append(q, msg)

\* the status the feed submitted last; the base class sets it to CONNECTED when
\* the feed starts. q holds every status the feed has queued since its start.
laststatus(q) == IF q = <<>> THEN CONNECTED ELSE q[Len(q)]

\* Data.put_notification, inherited from the base class of the host framework:
\* a status that differs from the one submitted last goes to the end of the
\* feed's queue, a status equal to it is dropped
put_notification(q, status) ==
    IF laststatus(q) # status THEN Append(q, status) ELSE q

Count(s, x) == Cardinality({i \in 1..Len(s) : s[i] = x})
Range(s) == {s[i] : i \in 1..Len(s)}

\* ------------------------------------------------------------------ state
VARIABLES
    store_state,        \* Store: "new", "started" (OnNewBar routed to new_bars), "stopped"
    new_bars,           \* Store.new_bars, the shared inbox
    notifs,             \* Store.notifs
    feed_state,         \* per feed: "new", "starting" (inside start), "started", "stopped",
                        \* "failed" (start raised)
    history_bars,       \* Data.history_bars
    guid,               \* Data.guid
    exit_event,         \* Data.exit_event is set
    dt_last_open,       \* Data.dt_last_open
    last_bar_received,  \* Data.last_bar_received
    live_mode,          \* Data.live_mode
    lines,              \* the output record, self.lines[0]
    ret,                \* how the latest _load call ended: "True", "None", "False", "raised"
    feed_notifs,        \* the statuses put_notification queued for the feed, in order
    host_pc,            \* the host thread: "idle", "start" (inside Data.start), "claim"
                        \* (inside _load, before the removal), "filter" (inside _load,
                        \* after it), "drain"
    host_f,             \* the feed of the _load call the host is inside or made last
    branch,             \* which return of _load the latest call took
    new_bars_l,         \* the local new_bars of _load
    drained,            \* the list get_notifications is building
    thread_pc,          \* the stream_bars thread of a feed
    thread_bars,        \* bars, the history the stream_bars thread fetched
    next_id,            \* history: identity of the next inbox entry
    taken,              \* history: how often a _load call took the entry with this id
    emitted,            \* history: the records each feed emitted, in order
    hist0,              \* history: history_bars as start() left it
    n_polls,            \* history: _load calls on a pure-historical feed
    n_put,              \* history: notifications put to Store.notifs
    returned,           \* history: what the completed drains returned, concatenated
    at_sentinel,        \* history: Store.notifs when the drain appended its sentinel
    f_in,               \* input of the session filter under check
    f_out,              \* its result
    close_in,           \* input of get_bar_close_date_time under check
    close_out           \* its result

storeVars == <<store_state, new_bars>>
feedVars == <<feed_state, history_bars, guid, exit_event, dt_last_open, last_bar_received,
              live_mode, lines, ret, feed_notifs>>
hostVars == <<host_pc, host_f, branch, new_bars_l>>
threadVars == <<thread_pc, thread_bars>>
histVars == <<next_id, taken, emitted, hist0, n_polls>>
notifVars == <<notifs, drained, n_put, returned, at_sentinel>>
filterVars == <<f_in, f_out, close_in, close_out>>
vars == <<storeVars, feedVars, hostVars, threadVars, histVars, notifVars, filterVars, feed_p>>

NoFeed == "-"
NoInput == [set |-> FALSE]

\* Data.__init__ and Store.__init__
Init ==
    /\ feed_p \in Configurations
    /\ store_state = "new"
    /\ new_bars = <<>>
    /\ notifs = <<>>
    /\ feed_state = [f \in Feeds |-> "new"]
    /\ history_bars = [f \in Feeds |-> <<>>]
    /\ guid = [f \in Feeds |-> None]
    /\ exit_event = [f \in Feeds |-> FALSE]
    /\ dt_last_open = [f \in Feeds |-> DatetimeMin]
    /\ last_bar_received = [f \in Feeds |-> FALSE]
    /\ live_mode = [f \in Feeds |-> FALSE]
    /\ lines = [f \in Feeds |-> NoLines]
    /\ ret = "-"
    /\ feed_notifs = [f \in Feeds |-> <<>>]
    /\ host_pc = "idle"
    /\ host_f = NoFeed
    /\ branch = "-"
    /\ new_bars_l = <<>>
    /\ drained = <<>>
    /\ thread_pc = [f \in Feeds |-> "none"]
    /\ thread_bars = [f \in Feeds |-> <<>>]
    /\ next_id = 1
    /\ taken = [i \in 1..MaxRunEntries |-> 0]
    /\ emitted = [f \in Feeds |-> <<>>]
    /\ hist0 = [f \in Feeds |-> <<>>]
    /\ n_polls = [f \in Feeds |-> 0]
    /\ n_put = 0
    /\ returned = <<>>
    /\ at_sentinel = <<>>
    /\ f_in = NoInput
    /\ f_out = Invalid
    /\ close_in = NoInput
    /\ close_out = [raised |-> FALSE, dt |-> DatetimeMin]

\* ------------------------------------------------------------------ store
\* Store.start: OnNewBar of every provider is routed to new_bars
StoreStart ==
    /\ host_pc = "idle"
    /\ store_state = "new"
    /\ store_state' = "started"
    /\ UNCHANGED <<new_bars, feedVars, hostVars, threadVars, histVars, notifVars, filterVars, feed_p>>

\* Store.stop: OnNewBar goes back to the default handler, the socket is closed
StoreStop ==
    /\ host_pc = "idle"
    /\ store_state = "started"
    /\ store_state' = "stopped"
    /\ UNCHANGED <<new_bars, feedVars, hostVars, threadVars, histVars, notifVars, filterVars, feed_p>>

\* provider.OnNewBar (the lambda of Store.start), called by the transport for a
\* subscription of feed f, from the moment bars_get_and_subscribe is under way;
\* the response carries the guid of the subscription
OnNewBarUpTo(f, bar, max) ==
    /\ store_state = "started"
    /\ feed_state[f] \in {"starting", "started"}
    /\ params(f).live_bars /\ ~params(f).schedule
    /\ next_id <= max
    /\ new_bars' = Append(new_bars, [provider_name |-> params(f).provider_name,
                                     guid |-> GuidOf(f), data |-> bar, id |-> next_id])
    /\ next_id' = next_id + 1
    /\ UNCHANGED <<store_state, feedVars, hostVars, threadVars, taken, emitted, hist0,
                   n_polls, notifVars, filterVars, feed_p>>

OnNewBar(f, bar) == OnNewBarUpTo(f, bar, MaxEntries)

\* ------------------------------------------------------------- Data.start
\* the is_bar_valid loop of start over the bars get_history returned, from bar
\* i on; nows[i] is the local clock read for bar i. The valid bars are appended
\* to history_bars one by one, so a ValueError leaves there the valid bars
\* before it.
RECURSIVE FilterFrom(_, _, _, _, _)
FilterFrom(f, raw, nows, i, bars) ==
    IF i > Len(raw) THEN [raised |-> FALSE, bars |-> bars]
    ELSE LET valid == is_bar_valid(params(f), raw[i],
                          get_alor_date_time_now(last_bar_received[f], 0, nows[i]))
         IN  IF valid.raised THEN [raised |-> TRUE, bars |-> bars]
             ELSE FilterFrom(f, raw, nows, i + 1,
                             IF valid.value THEN Append(bars, raw[i]) ELSE bars)

FilterHistory(f, raw, nows) == FilterFrom(f, raw, nows, 1, <<>>)

\* the lists of bars get_history may return, in any order and with any repeats
HistoryLists == UNION {[1..n -> Bars] : n \in 0..MaxHist}

\* the instants the local clock is read at during a start: before any bar has
\* closed, when the first bar closes, the last instant of the day, and when
\* every bar has closed
StartClocks == {0, utc_timestamp_to_msk_datetime(MinuteLen), SessionEndMax, MaxNow}

\* the readings of the local clock during one start, one per bar, none earlier
\* than the one before
StartReadings(n) ==
    {nows \in [1..n -> StartClocks] : \A i \in 1..n - 1 : nows[i] <= nows[i + 1]}

\* Data.start, live_bars False, up to the call of provider.get_history: DELAYED
\* is submitted and the host thread waits for the answer
StartHistory(f) ==
    /\ host_pc = "idle"
    /\ feed_state[f] = "new"
    /\ ~params(f).live_bars
    /\ feed_notifs' = [feed_notifs EXCEPT ![f] = put_notification(@, DELAYED)]
    /\ feed_state' = [feed_state EXCEPT ![f] = "starting"]
    /\ host_pc' = "start"
    /\ UNCHANGED <<storeVars, history_bars, guid, exit_event, dt_last_open, last_bar_received,
                   live_mode, lines, ret, host_f, branch, new_bars_l, threadVars, histVars,
                   notifVars, filterVars, feed_p>>

\* Data.start, live_bars False, from the answer of provider.get_history on: the
\* answer is None and start raises TypeError, or the history is filtered into
\* history_bars and CONNECTED is submitted when a bar was kept
StartHistoryAnswer(f) ==
    /\ host_pc = "start"
    /\ feed_state[f] = "starting"
    /\ ~params(f).live_bars
    /\ \/ /\ feed_state' = [feed_state EXCEPT ![f] = "failed"]
          /\ UNCHANGED <<history_bars, hist0, feed_notifs>>
       \/ \E raw \in HistoryLists : \E nows \in StartReadings(Len(raw)) :
            LET res == FilterHistory(f, raw, nows)
                bars == res.bars
            IN  /\ history_bars' = [history_bars EXCEPT ![f] = bars]
                /\ hist0' = [hist0 EXCEPT ![f] = bars]
                /\ feed_notifs' = [feed_notifs EXCEPT ![f] =
                       IF ~res.raised /\ Len(bars) > 0
                       THEN put_notification(@, CONNECTED)
                       ELSE @]
                /\ feed_state' = [feed_state EXCEPT ![f] =
                       IF res.raised THEN "failed" ELSE "started"]
    /\ host_pc' = "idle"
    /\ UNCHANGED <<storeVars, guid, exit_event, dt_last_open, last_bar_received, live_mode,
                   lines, ret, host_f, branch, new_bars_l, threadVars, next_id, taken,
                   emitted, n_polls, notifVars, filterVars, feed_p>>

\* Data.start, live_bars True with a schedule, up to Thread.start: DELAYED is
\* submitted, guid is set and the stream_bars thread is started
StartSchedule(f) ==
    /\ host_pc = "idle"
    /\ feed_state[f] = "new"
    /\ params(f).live_bars /\ params(f).schedule
    /\ guid' = [guid EXCEPT ![f] = GuidOf(f)]
    /\ thread_pc' = [thread_pc EXCEPT ![f] = "init"]
    /\ feed_notifs' = [feed_notifs EXCEPT ![f] = put_notification(@, DELAYED)]
    /\ feed_state' = [feed_state EXCEPT ![f] = "starting"]
    /\ host_pc' = "start"
    /\ UNCHANGED <<storeVars, history_bars, exit_event, dt_last_open, last_bar_received,
                   live_mode, lines, ret, host_f, branch, new_bars_l, thread_bars, histVars,
                   notifVars, filterVars, feed_p>>

\* Data.start, live_bars True with a schedule, after Thread.start: CONNECTED
StartScheduleConnected(f) ==
    /\ host_pc = "start"
    /\ feed_state[f] = "starting"
    /\ params(f).live_bars /\ params(f).schedule
    /\ feed_notifs' = [feed_notifs EXCEPT ![f] = put_notification(@, CONNECTED)]
    /\ feed_state' = [feed_state EXCEPT ![f] = "started"]
    /\ host_pc' = "idle"
    /\ UNCHANGED <<storeVars, history_bars, guid, exit_event, dt_last_open, last_bar_received,
                   live_mode, lines, ret, host_f, branch, new_bars_l, threadVars, histVars,
                   notifVars, filterVars, feed_p>>

\* Data.start, live_bars True without a schedule, up to the call of
\* provider.bars_get_and_subscribe: DELAYED is submitted and the host thread
\* waits for the answer
StartSubscribe(f) ==
    /\ host_pc = "idle"
    /\ feed_state[f] = "new"
    /\ params(f).live_bars /\ ~params(f).schedule
    /\ feed_notifs' = [feed_notifs EXCEPT ![f] = put_notification(@, DELAYED)]
    /\ feed_state' = [feed_state EXCEPT ![f] = "starting"]
    /\ host_pc' = "start"
    /\ UNCHANGED <<storeVars, history_bars, guid, exit_event, dt_last_open, last_bar_received,
                   live_mode, lines, ret, host_f, branch, new_bars_l, threadVars, histVars,
                   notifVars, filterVars, feed_p>>

\* Data.start, live_bars True without a schedule, from the answer of
\* provider.bars_get_and_subscribe on: guid is assigned and CONNECTED submitted
StartSubscribeConnected(f) ==
    /\ host_pc = "start"
    /\ feed_state[f] = "starting"
    /\ params(f).live_bars /\ ~params(f).schedule
    /\ guid' = [guid EXCEPT ![f] = GuidOf(f)]
    /\ feed_notifs' = [feed_notifs EXCEPT ![f] = put_notification(@, CONNECTED)]
    /\ feed_state' = [feed_state EXCEPT ![f] = "started"]
    /\ host_pc' = "idle"
    /\ UNCHANGED <<storeVars, history_bars, exit_event, dt_last_open, last_bar_received,
                   live_mode, lines, ret, host_f, branch, new_bars_l, threadVars, histVars,
                   notifVars, filterVars, feed_p>>

\* -------------------------------------------------------------- Data.stop
FeedStop(f) ==
    /\ host_pc = "idle"
    /\ feed_state[f] = "started"
    /\ feed_state' = [feed_state EXCEPT ![f] = "stopped"]
    /\ IF guid[f] # None
       THEN /\ exit_event' = [exit_event EXCEPT ![f] = IF params(f).schedule THEN TRUE ELSE @]
            /\ feed_notifs' = [feed_notifs EXCEPT ![f] = put_notification(@, DISCONNECTED)]
       ELSE UNCHANGED <<exit_event, feed_notifs>>
    /\ UNCHANGED <<storeVars, history_bars, guid, dt_last_open, last_bar_received, live_mode,
                   lines, ret, hostVars, threadVars, histVars, notifVars, filterVars, feed_p>>

\* ------------------------------------------------------------- Data._load
RECURSIVE remove_value(_, _)
\* self.history_bars.remove(bar)
remove_value(s, e) ==
    IF s = <<>> THEN <<>>
    ELSE IF Head(s) = e THEN Tail(s)
    ELSE <<Head(s)>> \o remove_value(Tail(s), e)

\* a faulty variant of LoadHistory: the call also takes the oldest entry of the inbox
LoadHistory_takes_inbox(f) ==
    /\ host_pc = "idle"
    /\ feed_state[f] = "started"
    /\ ~params(f).live_bars
    /\ n_polls[f] < MaxPolls
    /\ Len(history_bars[f]) # 0
    /\ LET bar == HistoryHead(history_bars[f])
       IN  /\ history_bars' = [history_bars EXCEPT ![f] = remove_value(@, bar)]
           /\ lines' = [lines EXCEPT ![f] = BarLines(params(f), bar)]
           /\ emitted' = [emitted EXCEPT ![f] = Append(@, BarLines(params(f), bar))]
    /\ new_bars' = IF new_bars = <<>> THEN new_bars ELSE Tail(new_bars)
    /\ ret' = "True"
    /\ host_f' = f
    /\ branch' = "emitted"
    /\ n_polls' = [n_polls EXCEPT ![f] = @ + 1]
    /\ UNCHANGED <<store_state, feed_state, guid, exit_event, dt_last_open, last_bar_received,
                   live_mode, feed_notifs, host_pc, new_bars_l, threadVars, next_id, taken,
                   hist0, notifVars, filterVars, feed_p>>

\* _load, live_bars False, bars left: the head of history_bars is emitted
LoadHistory(f) ==
    /\ host_pc = "idle"
    /\ feed_state[f] = "started"
    /\ ~params(f).live_bars
    /\ n_polls[f] < MaxPolls
    /\ Len(history_bars[f]) # 0
    /\ LET bar == HistoryHead(history_bars[f])
       IN  /\ history_bars' = [history_bars EXCEPT ![f] = remove_value(@, bar)]
           /\ lines' = [lines EXCEPT ![f] = BarLines(params(f), bar)]
           /\ emitted' = [emitted EXCEPT ![f] = Append(@, BarLines(params(f), bar))]
    /\ ret' = "True"
    /\ host_f' = f
    /\ branch' = "emitted"
    /\ n_polls' = [n_polls EXCEPT ![f] = @ + 1]
    /\ UNCHANGED <<storeVars, feed_state, guid, exit_event, dt_last_open, last_bar_received,
                   live_mode, feed_notifs, host_pc, new_bars_l, threadVars, next_id, taken,
                   hist0, notifVars, filterVars, feed_p>>

\* _load, live_bars False, no bar left: DISCONNECTED and False
LoadHistoryEnd(f) ==
    /\ host_pc = "idle"
    /\ feed_state[f] = "started"
    /\ ~params(f).live_bars
    /\ n_polls[f] < MaxPolls
    /\ Len(history_bars[f]) = 0
    /\ feed_notifs' = [feed_notifs EXCEPT ![f] = put_notification(@, DISCONNECTED)]
    /\ ret' = "False"
    /\ host_f' = f
    /\ branch' = "exhausted"
    /\ n_polls' = [n_polls EXCEPT ![f] = @ + 1]
    /\ UNCHANGED <<storeVars, feed_state, history_bars, guid, exit_event, dt_last_open,
                   last_bar_received, live_mode, lines, host_pc, new_bars_l, threadVars,
                   next_id, taken, emitted, hist0, notifVars, filterVars, feed_p>>

\* a faulty variant of LoadNothing: last_bar_received is set from the empty selection
LoadNothing_clears_flag(f) ==
    /\ host_pc = "idle"
    /\ feed_state[f] = "started"
    /\ params(f).live_bars
    /\ \/ Len(new_bars) = 0
       \/ Len(ScanInbox(f, guid[f], new_bars)) = 0
    /\ last_bar_received' = [last_bar_received EXCEPT ![f] = FALSE]
    /\ ret' = "None"
    /\ host_f' = f
    /\ branch' = "nothing"
    /\ UNCHANGED <<storeVars, feed_state, history_bars, guid, exit_event, dt_last_open,
                   live_mode, lines, feed_notifs, host_pc, new_bars_l,
                   threadVars, histVars, notifVars, filterVars, feed_p>>

\* _load, live_bars True, the inbox is empty or holds no entry of the feed: None
LoadNothing(f) ==
    /\ host_pc = "idle"
    /\ feed_state[f] = "started"
    /\ params(f).live_bars
    /\ \/ Len(new_bars) = 0
       \/ Len(ScanInbox(f, guid[f], new_bars)) = 0
    /\ ret' = "None"
    /\ host_f' = f
    /\ branch' = "nothing"
    /\ UNCHANGED <<storeVars, feed_state, history_bars, guid, exit_event, dt_last_open,
                   last_bar_received, live_mode, lines, feed_notifs, host_pc, new_bars_l,
                   threadVars, histVars, notifVars, filterVars, feed_p>>

\* _load, live_bars True, the scan: the inbox is scanned for the feed's entries
\* and last_bar_received is set from their number
LoadScan(f) ==
    /\ host_pc = "idle"
    /\ feed_state[f] = "started"
    /\ params(f).live_bars
    /\ Len(new_bars) # 0
    /\ LET sel == ScanInbox(f, guid[f], new_bars)
       IN  /\ Len(sel) # 0
           /\ new_bars_l' = sel
           /\ last_bar_received' = [last_bar_received EXCEPT ![f] = LastBar(sel)]
    /\ host_pc' = "claim"
    /\ host_f' = f
    /\ UNCHANGED <<storeVars, feed_state, history_bars, guid, exit_event, dt_last_open,
                   live_mode, lines, ret, feed_notifs, branch, threadVars, histVars,
                   notifVars, filterVars, feed_p>>

\* the exchange clock (a timestamp) and the local clock (a datetime) at one call
\* of is_bar_valid: the call reads one of the two, so readings of the same
\* moment cover every outcome
ClockReadings ==
    {[server |-> (t \div SecLen) - MskOffset, local |-> t] : t \in 0..MaxNow}

\* _load, live_bars True, the removal: the first selected entry is removed from
\* the inbox
LoadClaim(f) ==
    /\ host_pc = "claim"
    /\ host_f = f
    /\ new_bars' = list_remove(new_bars, FirstSelected(new_bars_l))
    /\ taken' = [taken EXCEPT ![FirstSelected(new_bars_l).id] = @ + 1]
    /\ host_pc' = "filter"
    /\ UNCHANGED <<store_state, feedVars, host_f, branch, new_bars_l, threadVars, next_id,
                   emitted, hist0, n_polls, notifVars, filterVars, feed_p>>

\* _load, live_bars True, from is_bar_valid on: the clock is read (the host
\* thread waits for provider.get_time when last_bar_received is set), the bar
\* is filtered, compared with dt_last_open, and emitted
LoadFilter(f) ==
    /\ host_pc = "filter"
    /\ host_f = f
    /\ \E clock \in ClockReadings :
         LET server_now == clock.server
             local_now == clock.local
             bar == FirstSelected(new_bars_l).data
             now == get_alor_date_time_now(last_bar_received[f], server_now, local_now)
             dt_open == get_bar_open_date_time(params(f), bar)
             t == Transition(last_bar_received[f], live_mode[f])
             valid == is_bar_valid(params(f), bar, now)
         IN  IF valid.raised
             THEN /\ ret' = "raised"
                  /\ branch' = "raised"
                  /\ UNCHANGED <<dt_last_open, live_mode, lines, feed_notifs, emitted>>
             ELSE IF ~valid.value
             THEN /\ ret' = "None"
                  /\ branch' = "invalid"
                  /\ UNCHANGED <<dt_last_open, live_mode, lines, feed_notifs, emitted>>
             ELSE IF IsStale(dt_open, dt_last_open[f])
             THEN /\ ret' = "None"
                  /\ branch' = "stale"
                  /\ UNCHANGED <<dt_last_open, live_mode, lines, feed_notifs, emitted>>
             ELSE /\ dt_last_open' = [dt_last_open EXCEPT ![f] = dt_open]
                  /\ feed_notifs' = [feed_notifs EXCEPT ![f] =
                         IF t.put = <<>> THEN @ ELSE put_notification(@, t.put[1])]
                  /\ live_mode' = [live_mode EXCEPT ![f] = t.live_mode]
                  /\ lines' = [lines EXCEPT ![f] = BarLines(params(f), bar)]
                  /\ emitted' = [emitted EXCEPT ![f] = Append(@, BarLines(params(f), bar))]
                  /\ ret' = "True"
                  /\ branch' = "emitted"
    /\ host_pc' = "idle"
    /\ new_bars_l' = <<>>
    /\ UNCHANGED <<storeVars, feed_state, history_bars, guid, exit_event,
                   last_bar_received, host_f, threadVars, next_id, taken, hist0, n_polls,
                   notifVars, filterVars, feed_p>>

\* ------------------------------------------------------ Data.stream_bars
\* the thread starts: the bar period is computed, or the conversion raises
StreamStart(f) ==
    /\ thread_pc[f] = "init"
    /\ thread_pc' = [thread_pc EXCEPT ![f] =
            IF timeframe_to_timedelta(params(f).timeframe, params(f).compression).raised
            THEN "failed" ELSE "wait"]
    /\ UNCHANGED <<storeVars, feedVars, hostVars, thread_bars, histVars, notifVars, filterVars, feed_p>>

\* the top of the loop: a call of the schedule (lines 171-180) raises and ends
\* the thread, or exit_event.wait(sleep_time_secs) returns: True when the event
\* is set (the thread returns), False when the time is up and it is not set
StreamWait(f) ==
    /\ thread_pc[f] = "wait"
    /\ \/ thread_pc' = [thread_pc EXCEPT ![f] = "failed"]
       \/ thread_pc' = [thread_pc EXCEPT ![f] = IF exit_event[f] THEN "exited" ELSE "fetch"]
    /\ UNCHANGED <<storeVars, feedVars, hostVars, thread_bars, histVars, notifVars, filterVars, feed_p>>

\* what get_history returns to stream_bars when it returns bars: a list of
\* bars, in any order and with any repeats
FetchedLists == UNION {[1..n -> Bars] : n \in 1..MaxFetch}

\* provider.get_history: the call raises, or its answer has no "history" key,
\* and the thread ends; nothing or an empty history (continue); or bars
StreamFetch(f) ==
    /\ thread_pc[f] = "fetch"
    /\ \/ /\ thread_pc' = [thread_pc EXCEPT ![f] = "failed"]
          /\ UNCHANGED thread_bars
       \/ /\ thread_pc' = [thread_pc EXCEPT ![f] = "wait"]
          /\ UNCHANGED thread_bars
       \/ /\ next_id <= MaxEntries
          /\ \E bars \in FetchedLists : thread_bars' = [thread_bars EXCEPT ![f] = bars]
          /\ thread_pc' = [thread_pc EXCEPT ![f] = "append"]
    /\ UNCHANGED <<storeVars, feedVars, hostVars, histVars, notifVars, filterVars, feed_p>>

\* bar = bars[0]
FirstBar(bars) == bars[1]

\* self.store.new_bars.append(dict(provider_name, response = dict(guid, data)))
StreamAppend(f) ==
    /\ thread_pc[f] = "append"
    /\ next_id <= MaxEntries
    /\ new_bars' = Append(new_bars, [provider_name |-> params(f).provider_name,
                                     guid |-> guid[f], data |-> FirstBar(thread_bars[f]),
                                     id |-> next_id])
    /\ next_id' = next_id + 1
    /\ thread_pc' = [thread_pc EXCEPT ![f] = "wait"]
    /\ thread_bars' = [thread_bars EXCEPT ![f] = <<>>]
    /\ UNCHANGED <<store_state, feedVars, hostVars, taken, emitted, hist0, n_polls,
                   notifVars, filterVars, feed_p>>

\* ------------------------------------------------------------------- spec
\* Data.islive: the feeds with live_bars
LiveFeeds == {f \in Feeds : params(f).live_bars}
HistFeeds == {f \in Feeds : ~params(f).live_bars}
\* the feeds with live_bars and a schedule
ScheduleFeeds == {f \in LiveFeeds : params(f).schedule}

\* the live feeds, their producers and the shared inbox
Next ==
    \/ StoreStart
    \/ StoreStop
    \/ \E f \in LiveFeeds : StartSchedule(f)
    \/ \E f \in LiveFeeds : StartScheduleConnected(f)
    \/ \E f \in LiveFeeds : StartSubscribe(f)
    \/ \E f \in LiveFeeds : StartSubscribeConnected(f)
    \/ \E f \in LiveFeeds : FeedStop(f)
    \/ \E f \in LiveFeeds : LoadNothing(f)
    \/ \E f \in LiveFeeds : LoadScan(f)
    \/ \E f \in LiveFeeds : LoadClaim(f)
    \/ \E f \in LiveFeeds : LoadFilter(f)
    \/ \E f \in LiveFeeds, bar \in Bars : OnNewBar(f, bar)
    \/ \E f \in LiveFeeds : StreamStart(f)
    \/ \E f \in LiveFeeds : StreamWait(f)
    \/ \E f \in LiveFeeds : StreamFetch(f)
    \/ \E f \in LiveFeeds : StreamAppend(f)

Spec == Init /\ [][Next]_vars

\* the feeds without a schedule do not depend on the timeframe of the scheduled feed
InitMinutes == Init /\ feed_p = [f \in Feeds |-> Params(f, "Minutes")]

\* the pure-historical feeds
NextHist ==
    \/ \E f \in HistFeeds : StartHistory(f)
    \/ \E f \in HistFeeds : StartHistoryAnswer(f)
    \/ \E f \in HistFeeds : LoadHistory(f)
    \/ \E f \in HistFeeds : LoadHistoryEnd(f)
    \/ \E f \in HistFeeds : FeedStop(f)

SpecHist == InitMinutes /\ [][NextHist]_vars

\* the pure-historical feeds next to a subscription that fills the inbox
NextHistInbox ==
    \/ StoreStart
    \/ \E f \in LiveFeeds : StartSubscribe(f)
    \/ \E f \in LiveFeeds : StartSubscribeConnected(f)
    \/ \E f \in LiveFeeds, bar \in Bars : OnNewBar(f, bar)
    \/ \E f \in HistFeeds : StartHistory(f)
    \/ \E f \in HistFeeds : StartHistoryAnswer(f)
    \/ \E f \in HistFeeds : LoadHistory(f)
    \/ \E f \in HistFeeds : LoadHistoryEnd(f)
    \/ \E f \in HistFeeds : FeedStop(f)

SpecHistInbox == InitMinutes /\ [][NextHistInbox]_vars

\* the feeds with live_bars and a subscription
SubscribeFeeds == {f \in LiveFeeds : ~params(f).schedule}

\* the bars the transport delivers over a long run
RunBars == [time : 0..MaxTime + 3, high : {2}, low : {1}]

\* a subscribed feed alone, over a run long enough to go live twice
NextRun ==
    \/ StoreStart
    \/ \E f \in SubscribeFeeds : StartSubscribe(f)
    \/ \E f \in SubscribeFeeds : StartSubscribeConnected(f)
    \/ \E f \in SubscribeFeeds, bar \in RunBars : OnNewBarUpTo(f, bar, MaxRunEntries)
    \/ \E f \in SubscribeFeeds : LoadNothing(f)
    \/ \E f \in SubscribeFeeds : LoadScan(f)
    \/ \E f \in SubscribeFeeds : LoadClaim(f)
    \/ \E f \in SubscribeFeeds : LoadFilter(f)
    \/ \E f \in SubscribeFeeds : FeedStop(f)

SpecRun == InitMinutes /\ [][NextRun]_vars

\* ------------------------------------------------------ Store.notifs
\* a faulty variant of AppendSentinel: the sentinel goes to the head of the queue
AppendSentinel_left(q) == <<Sentinel>> \o q

\* self.notifs.append(None)
AppendSentinel(q) == Append(q, Sentinel)

\* Store.put_notification, from any thread
StorePut ==
    /\ n_put < MaxNotifs
    /\ notifs' = Store_put_notification(notifs, n_put + 1)
    /\ n_put' = n_put + 1
    /\ UNCHANGED <<storeVars, feedVars, hostVars, threadVars, histVars, drained, returned,
                   at_sentinel, filterVars, feed_p>>

\* Store.get_notifications, first step: the sentinel is appended
GetNotifications ==
    /\ host_pc = "idle"
    /\ notifs' = AppendSentinel(notifs)
    /\ at_sentinel' = notifs
    /\ drained' = <<>>
    /\ host_pc' = "drain"
    /\ UNCHANGED <<storeVars, feedVars, host_f, branch, new_bars_l, threadVars, histVars, n_put,
                   returned, filterVars, feed_p>>

\* one round of iter(self.notifs.popleft, None): the head is popped; the
\* sentinel ends the call, anything else joins the list to return
PopLeft ==
    /\ host_pc = "drain"
    /\ Len(notifs) > 0
    /\ notifs' = Tail(notifs)
    /\ IF Head(notifs) = Sentinel
       THEN /\ returned' = returned \o drained
            /\ host_pc' = "idle"
            /\ UNCHANGED drained
       ELSE /\ drained' = Append(drained, Head(notifs))
            /\ UNCHANGED <<returned, host_pc>>
    /\ UNCHANGED <<storeVars, feedVars, host_f, branch, new_bars_l, threadVars, histVars, n_put,
                   at_sentinel, filterVars, feed_p>>

NextNotif == StorePut \/ GetNotifications \/ PopLeft

SpecNotif == Init /\ [][NextNotif]_vars

\* ------------------------------------------------------ the session filter
\* the timestamp of a second of 1972-02-29, a day the next year does not have
LeapDayTime == days_from_civil(1972, 2, 29) * DaySecs + 1
\* a time span longer than a year, in days
LongSpan == 400

\* the bar timestamps given to the filter: the first day and a leap day
FilterTimes == (0..DaySecs) \cup {LeapDayTime}
\* the readings of the exchange clock (timestamps): while the bars of the first
\* day form and close, a week later, and long after; the same for the leap day
FilterServerNows ==
    (0..(DaySecs + 1))
        \cup {WeekDays * DaySecs + 2, LongSpan * DaySecs, LeapDayTime,
              LeapDayTime + LongSpan * DaySecs}
\* the readings of the local clock (datetimes), the last instant of a day among them
FilterLocalNows ==
    {0, DayLen - SecLen - 1, SessionEndMax, DayLen + SecLen + 1, WeekDays * DayLen + 1,
     utcfromtimestamp(LeapDayTime) - 1, LongSpan * DayLen}

FilterParams ==
    [timeframe : TimeFrames, compression : {1, 2},
     sessionstart : {TimeMin, SecLen, 2 * SecLen},
     sessionend : {SessionEndMax, SecLen, DayLen - SecLen},
     four_price_doji : BOOLEAN]

FilterInputs ==
    [set : {TRUE}, done : {FALSE}, p : FilterParams,
     bar : [time : FilterTimes, high : {1, 2}, low : {1}],
     lbr : BOOLEAN, server_now : FilterServerNows, local_now : FilterLocalNows]

InitFilter ==
    /\ feed_p = [f \in Feeds |-> Params(f, "Minutes")]
    /\ store_state = "new"
    /\ new_bars = <<>>
    /\ notifs = <<>>
    /\ feed_state = [f \in Feeds |-> "new"]
    /\ history_bars = [f \in Feeds |-> <<>>]
    /\ guid = [f \in Feeds |-> None]
    /\ exit_event = [f \in Feeds |-> FALSE]
    /\ dt_last_open = [f \in Feeds |-> DatetimeMin]
    /\ last_bar_received = [f \in Feeds |-> FALSE]
    /\ live_mode = [f \in Feeds |-> FALSE]
    /\ lines = [f \in Feeds |-> NoLines]
    /\ ret = "-"
    /\ feed_notifs = [f \in Feeds |-> <<>>]
    /\ host_pc = "idle"
    /\ host_f = NoFeed
    /\ branch = "-"
    /\ new_bars_l = <<>>
    /\ drained = <<>>
    /\ thread_pc = [f \in Feeds |-> "none"]
    /\ thread_bars = [f \in Feeds |-> <<>>]
    /\ next_id = 1
    /\ taken = [i \in 1..MaxRunEntries |-> 0]
    /\ emitted = [f \in Feeds |-> <<>>]
    /\ hist0 = [f \in Feeds |-> <<>>]
    /\ n_polls = [f \in Feeds |-> 0]
    /\ n_put = 0
    /\ returned = <<>>
    /\ at_sentinel = <<>>
    /\ f_in \in FilterInputs
    /\ f_out = Invalid
    /\ close_in = NoInput
    /\ close_out = [raised |-> FALSE, dt |-> DatetimeMin]

\* one call of is_bar_valid on the input drawn
ApplyFilter ==
    /\ f_in.set /\ ~f_in.done
    /\ f_out' = is_bar_valid(f_in.p, f_in.bar,
                              get_alor_date_time_now(f_in.lbr, f_in.server_now,
                                                     f_in.local_now))
    /\ f_in' = [f_in EXCEPT !.done = TRUE]
    /\ UNCHANGED <<storeVars, feedVars, hostVars, threadVars, histVars, notifVars,
                   close_in, close_out, feed_p>>

SpecFilter == InitFilter /\ [][ApplyFilter]_vars

\* ------------------------------------------------ the close time of a bar
\* the timestamps of the monthly bars given to get_bar_close_date_time: every
\* second of the years CalFirstYear .. CalFirstYear + CalYears - 1
CloseTimes ==
    (days_from_civil(CalFirstYear, 1, 1) * DaySecs)
        .. (days_from_civil(CalFirstYear + CalYears, 1, 1) * DaySecs - 1)

CloseInputs ==
    [set : {TRUE}, done : {FALSE},
     p : [timeframe : {"Months"}, compression : {1, 2}],
     bar : [time : CloseTimes]]

InitClose ==
    /\ feed_p = [f \in Feeds |-> Params(f, "Minutes")]
    /\ store_state = "new"
    /\ new_bars = <<>>
    /\ notifs = <<>>
    /\ feed_state = [f \in Feeds |-> "new"]
    /\ history_bars = [f \in Feeds |-> <<>>]
    /\ guid = [f \in Feeds |-> None]
    /\ exit_event = [f \in Feeds |-> FALSE]
    /\ dt_last_open = [f \in Feeds |-> DatetimeMin]
    /\ last_bar_received = [f \in Feeds |-> FALSE]
    /\ live_mode = [f \in Feeds |-> FALSE]
    /\ lines = [f \in Feeds |-> NoLines]
    /\ ret = "-"
    /\ feed_notifs = [f \in Feeds |-> <<>>]
    /\ host_pc = "idle"
    /\ host_f = NoFeed
    /\ branch = "-"
    /\ new_bars_l = <<>>
    /\ drained = <<>>
    /\ thread_pc = [f \in Feeds |-> "none"]
    /\ thread_bars = [f \in Feeds |-> <<>>]
    /\ next_id = 1
    /\ taken = [i \in 1..MaxRunEntries |-> 0]
    /\ emitted = [f \in Feeds |-> <<>>]
    /\ hist0 = [f \in Feeds |-> <<>>]
    /\ n_polls = [f \in Feeds |-> 0]
    /\ n_put = 0
    /\ returned = <<>>
    /\ at_sentinel = <<>>
    /\ f_in = NoInput
    /\ f_out = Invalid
    /\ close_in \in CloseInputs
    /\ close_out = [raised |-> FALSE, dt |-> DatetimeMin]

\* dt_close = self.get_bar_close_date_time(dt_open) on the open time of the bar drawn
ApplyClose ==
    /\ close_in.set /\ ~close_in.done
    /\ close_out' = get_bar_close_date_time(close_in.p,
                          get_bar_open_date_time(close_in.p, close_in.bar))
    /\ close_in' = [close_in EXCEPT !.done = TRUE]
    /\ UNCHANGED <<storeVars, feedVars, hostVars, threadVars, histVars, notifVars,
                   f_in, f_out, feed_p>>

SpecClose == InitClose /\ [][ApplyClose]_vars

\* ================================================================== claims
\* the entry is of feed f's own provider and subscription handle
Own(f, e) == e.provider_name = params(f).provider_name /\ e.guid = guid[f]

Ids(q) == {q[i].id : i \in 1..Len(q)}

\* the entries of q that are not in r
Gone(q, r) == {e \in Range(q) : e.id \notin Ids(r)}

\* this step is the removal of a _load call of live feed f
ClaimStep(f) == host_pc = "claim" /\ host_f = f /\ host_pc' = "filter"

\* this step is the rest of that call, from is_bar_valid to the return
FilterStep(f) == host_pc = "filter" /\ host_f = f /\ host_pc' = "idle"

Min(a, b) == IF a < b THEN a ELSE b

\* ---- C1
\* C1: the open times of the bars one feed emits are strictly increasing,
\* whatever the inbox held and in whatever order: no bar as old as, or older
\* than, an emitted bar is emitted, so each open time is emitted at most once.
C1_EmittedStrictlyIncreasing ==
    \A f \in Feeds : \A i \in 1..Len(emitted[f]) : \A j \in 1..Len(emitted[f]) :
        i < j => emitted[f][i].datetime < emitted[f][j].datetime

\* C1 on the feeds with live_bars: the open times of the bars a live feed emits
\* are strictly increasing.
C1_LiveEmittedStrictlyIncreasing ==
    \A f \in LiveFeeds : \A i \in 1..Len(emitted[f]) : \A j \in 1..Len(emitted[f]) :
        i < j => emitted[f][i].datetime < emitted[f][j].datetime

\* a live feed has emitted two bars and its latest poll call discarded a third,
\* stale one
C1_LiveStaleDiscarded ==
    /\ host_pc = "idle" /\ host_f = "sub" /\ branch = "stale"
    /\ Len(emitted["sub"]) = 2

\* ---- C2
\* C2: with several live feeds on the one inbox, a poll call removes only an
\* entry of the polling feed's own provider name and handle, leaves the entries
\* of other handles in place and in order, and no entry is taken twice.
C2_OnlyOwnEntries ==
    [][/\ \A f \in LiveFeeds :
         ClaimStep(f) =>
            /\ \A e \in Gone(new_bars, new_bars') : Own(f, e)
            /\ SelectSeq(new_bars', LAMBDA e : ~Own(f, e))
                  = SelectSeq(new_bars, LAMBDA e : ~Own(f, e))
            /\ Own(f, new_bars_l[1])
            /\ \A i \in 1..MaxEntries : taken'[i] <= 1
       /\ \A f \in LiveFeeds : FilterStep(f) => new_bars' = new_bars]_vars

\* the scheduled feed is about to remove its entry, which lies behind an entry
\* of the subscribed feed
C2_Witness ==
    /\ host_pc = "claim" /\ host_f = "poll"
    /\ Len(new_bars) >= 2
    /\ new_bars[1].guid = guid["sub"]
    /\ new_bars[2].guid = guid["poll"]

\* ---- C3
\* C3: a pure-historical feed whose filtered list holds n bars emits them in
\* list order on its first n poll calls; the (n+1)-th poll call returns False,
\* and over the whole run, later poll calls and stop included, DISCONNECTED is
\* queued exactly once.
C3_HistoryReplay ==
    \A f \in HistFeeds :
        LET n == Len(hist0[f])
            k == n_polls[f]
        IN  /\ emitted[f] = [i \in 1..Min(k, n) |-> BarLines(params(f), hist0[f][i])]
            /\ Len(history_bars[f]) = n - Min(k, n)
            /\ (k > n => ret = "False")
            /\ (0 < k /\ k <= n => ret = "True" /\ lines[f] = emitted[f][k])
            /\ Count(feed_notifs[f], DISCONNECTED) = (IF k > n THEN 1 ELSE 0)
            /\ k > n => feed_notifs[f][Len(feed_notifs[f])] = DISCONNECTED

\* three bars were emitted, the fourth and the fifth poll call ended the data,
\* and the feed is stopped
C3_Witness ==
    /\ Len(hist0["hist"]) = 3
    /\ n_polls["hist"] = 5
    /\ feed_state["hist"] = "stopped"
    /\ feed_notifs["hist"] = <<DELAYED, CONNECTED, DISCONNECTED>>

\* ---- C4
\* C4: a poll call that selected two entries of the feed, t5 enqueued before
\* t6, and emits, emits the t5 bar, leaves last_bar_received false and queues no
\* LIVE; the poll call that then selects the one entry left and emits it sets
\* last_bar_received and queues LIVE exactly once.
C4_TwoEntries ==
    [][\A f \in LiveFeeds :
         (FilterStep(f) /\ ret' = "True") =>
            /\ (Len(new_bars_l) = 2
                   /\ new_bars_l[1].data.time < new_bars_l[2].data.time) =>
                  /\ lines'[f] = BarLines(params(f), new_bars_l[1].data)
                  /\ ~last_bar_received'[f]
                  /\ ~live_mode'[f]
                  /\ Count(feed_notifs'[f], LIVE) = Count(feed_notifs[f], LIVE)
                  /\ \E i \in 1..Len(new_bars') : new_bars'[i].id = new_bars_l[2].id
                  /\ taken'[new_bars_l[1].id] = 1
            /\ (Len(new_bars_l) = 1 /\ ~live_mode[f]) =>
                  /\ lines'[f] = BarLines(params(f), new_bars_l[1].data)
                  /\ last_bar_received'[f]
                  /\ live_mode'[f]
                  /\ feed_notifs'[f] = Append(feed_notifs[f], LIVE)]_vars

\* between the two poll calls: the first of two entries was emitted with
\* last_bar_received false and no LIVE, the newer one is alone in the inbox
C4_Witness ==
    /\ host_pc = "idle" /\ host_f = "sub" /\ branch = "emitted"
    /\ Len(emitted["sub"]) = 1
    /\ ~last_bar_received["sub"] /\ ~live_mode["sub"]
    /\ Count(feed_notifs["sub"], LIVE) = 0
    /\ Len(new_bars) = 1 /\ Own("sub", new_bars[1])
    /\ get_bar_open_date_time(params("sub"), new_bars[1].data) > dt_last_open["sub"]

\* ---- C5
\* C5: get_notifications returns, in order, exactly what Store.notifs held when
\* the sentinel was appended; what is put later stays for the next call; over
\* all calls nothing is returned twice or lost, and no sentinel stays behind.
C5_DrainExactlyQueued ==
    LET pending == SelectSeq(notifs, LAMBDA x : x # Sentinel)
        all == [i \in 1..n_put |-> i]
    IN  /\ host_pc = "idle" =>
              /\ drained = at_sentinel
              /\ Count(notifs, Sentinel) = 0
              /\ returned \o notifs = all
        /\ host_pc = "drain" =>
              /\ Count(notifs, Sentinel) = 1
              /\ \E k \in 1..Len(notifs) :
                    /\ notifs[k] = Sentinel
                    /\ drained \o SubSeq(notifs, 1, k - 1) = at_sentinel
              /\ returned \o drained \o pending = all

\* a second call is under way: it has popped a notification, and another one
\* was put behind its sentinel
C5_Witness ==
    /\ host_pc = "drain"
    /\ Len(returned) >= 1
    /\ Len(drained) >= 1
    /\ Len(notifs) >= 2 /\ notifs[Len(notifs)] # Sentinel

\* ---- C6
\* C6: once exit_event is set, stream_bars exits at its current or next wait
\* and starts no history fetch (a thread that an exception ends at the wait
\* starts no fetch either).
C6_NoFetchAfterSignal ==
    [][\A f \in LiveFeeds :
         exit_event[f] =>
            /\ (thread_pc[f] = "wait" /\ thread_pc'[f] \notin {"wait", "failed"}
                   => thread_pc'[f] = "exited")
            /\ (thread_pc[f] = "fetch" => thread_pc'[f] = "fetch")]_vars

\* ---- C7
\* C7: when stop() of a scheduled feed has returned, its stream_bars thread has
\* exited: it fetches nothing and appends nothing afterwards.
C7_ThreadExitedAtStop ==
    [][\A f \in LiveFeeds :
         (feed_state[f] = "stopped" /\ params(f).schedule) =>
            /\ thread_pc[f] \in {"exited", "failed"}
            /\ thread_pc'[f] = thread_pc[f]
            /\ Gone(new_bars', new_bars) = {}]_vars

\* ---- C8
\* C8: a poll call that selected at least one entry of the feed removes exactly
\* one entry from the inbox, the one it took, whether the bar is emitted,
\* rejected by the filter or stale; an entry once taken is never in the inbox
\* or in a later selection again.
C8_ExactlyOneRemoved ==
    [][/\ \A f \in LiveFeeds :
            ClaimStep(f) =>
               /\ Len(new_bars') = Len(new_bars) - 1
               /\ Gone(new_bars, new_bars') = {new_bars_l[1]}
               /\ Gone(new_bars', new_bars) = {}
       /\ \A f \in LiveFeeds :
            FilterStep(f) =>
               /\ new_bars' = new_bars
               /\ taken[new_bars_l[1].id] = 1
               /\ branch' \in {"emitted", "invalid", "stale"}
       /\ \A i \in 1..MaxEntries :
            taken'[i] >= 1 =>
               /\ i \notin Ids(new_bars')
               /\ host_pc' # "filter" => i \notin Ids(new_bars_l')]_vars

\* of two entries of the subscribed feed the poll call took one, which the
\* filter rejected; the other is still in the inbox
C8_Witness ==
    /\ host_pc = "idle" /\ host_f = "sub" /\ branch = "invalid"
    /\ Len(new_bars) = 1 /\ Own("sub", new_bars[1])
    /\ taken[1] = 1 /\ ~last_bar_received["sub"]

\* ---- C9
\* C9: dt_last_open never decreases, and after a live poll call that emits a
\* bar it is the open time of that bar.
C9_LastOpenMonotone ==
    [][\A f \in Feeds :
         /\ dt_last_open'[f] >= dt_last_open[f]
         /\ (f \in LiveFeeds /\ FilterStep(f) /\ ret' = "True") =>
               /\ dt_last_open'[f] = get_bar_open_date_time(params(f), new_bars_l[1].data)
               /\ dt_last_open'[f] = lines'[f].datetime]_vars

\* the low-water mark was raised twice and then met an older bar
C9_Witness ==
    /\ host_pc = "idle" /\ host_f = "poll" /\ branch = "stale"
    /\ Len(emitted["poll"]) = 2
    /\ dt_last_open["poll"] = emitted["poll"][2].datetime

\* ---- C10
\* the four rules of the session filter, as the specification words them
Rule1(p, open_time) == p.sessionstart # TimeMin /\ TimeOf(open_time) < p.sessionstart
Rule2(p, close_time) == p.sessionend # SessionEndMax /\ TimeOf(close_time) > p.sessionend
Rule3(p, bar) == ~p.four_price_doji /\ bar.high = bar.low
Rule4(p, close_time, now) == close_time > now /\ TimeOf(now) < p.sessionend

\* C10: is_bar_valid returns, and its result is true exactly when none of the
\* four rules rejects the bar, on every bar, session window, timeframe and
\* clock drawn.
C10_FilterIsTheFourRules ==
    f_in.set /\ f_in.done =>
        LET p == f_in.p
            open_time == get_bar_open_date_time(p, f_in.bar)
            close_time == get_bar_close_date_time(p, open_time).dt
            now == IF f_in.lbr THEN utc_timestamp_to_msk_datetime(f_in.server_now)
                   ELSE f_in.local_now
        IN  /\ ~f_out.raised
            /\ f_out.value = (~Rule1(p, open_time) /\ ~Rule2(p, close_time)
                                /\ ~Rule3(p, f_in.bar) /\ ~Rule4(p, close_time, now))

\* C10 on the bars whose close time exists: is_bar_valid raises only on a yearly
\* bar that opens on 29 February and passes rule 1, and on every other input
\* its result is true exactly when none of the four rules rejects the bar.
C10_FourRulesWhereCloseExists ==
    f_in.set /\ f_in.done =>
        LET p == f_in.p
            open_time == get_bar_open_date_time(p, f_in.bar)
            date == DateOf(open_time)
            close_time == get_bar_close_date_time(p, open_time).dt
            now == IF f_in.lbr THEN utc_timestamp_to_msk_datetime(f_in.server_now)
                   ELSE f_in.local_now
        IN  /\ f_out.raised =
                  (/\ p.timeframe = "Years" /\ date.month = 2 /\ date.day = 29
                   /\ ~Rule1(p, open_time))
            /\ ~f_out.raised =>
                  f_out.value = (~Rule1(p, open_time) /\ ~Rule2(p, close_time)
                                    /\ ~Rule3(p, f_in.bar) /\ ~Rule4(p, close_time, now))

\* a bar still forming by the local clock is accepted in the last instant of
\* the day, the session end being unbound
C10_AcceptedInLastInstant ==
    /\ f_in.set /\ f_in.done /\ f_out = Valid
    /\ f_in.p.sessionend = SessionEndMax
    /\ ~f_in.lbr /\ TimeOf(f_in.local_now) = SessionEndMax
    /\ get_bar_close_date_time(f_in.p, get_bar_open_date_time(f_in.p, f_in.bar)).dt
          > f_in.local_now

\* ---- C11
\* C11: of two evaluations of is_bar_valid that differ only in four_price_doji,
\* on a bar with high = low that rules 1, 2 and 4 let pass, the one with the
\* parameter false rejects and the one with it true accepts; on a bar with
\* high # low the two give the same verdict.
C11_DojiFlagDecides ==
    f_in.set /\ f_in.done =>
        LET bar == f_in.bar
            now == get_alor_date_time_now(f_in.lbr, f_in.server_now, f_in.local_now)
            allow == [f_in.p EXCEPT !.four_price_doji = TRUE]
            deny == [f_in.p EXCEPT !.four_price_doji = FALSE]
            open_time == get_bar_open_date_time(f_in.p, bar)
            close == get_bar_close_date_time(f_in.p, open_time)
            passes == /\ ~Rule1(f_in.p, open_time)
                      /\ ~close.raised
                      /\ ~Rule2(f_in.p, close.dt)
                      /\ ~Rule4(f_in.p, close.dt, now)
        IN  /\ f_out = is_bar_valid(IF f_in.p.four_price_doji THEN allow ELSE deny, bar, now)
            /\ (bar.high = bar.low /\ passes) =>
                   is_bar_valid(deny, bar, now) = Invalid /\ is_bar_valid(allow, bar, now) = Valid
            /\ bar.high # bar.low =>
                   is_bar_valid(deny, bar, now) = is_bar_valid(allow, bar, now)

\* a four-price doji inside a bounded session, closed by the clock, was rejected
\* with the parameter false
C11_Witness ==
    /\ f_in.set /\ f_in.done /\ f_out = Invalid
    /\ ~f_in.p.four_price_doji
    /\ f_in.bar.high = f_in.bar.low
    /\ f_in.p.sessionstart # TimeMin /\ f_in.p.sessionend # SessionEndMax
    /\ is_bar_valid([f_in.p EXCEPT !.four_price_doji = TRUE], f_in.bar,
                    get_alor_date_time_now(f_in.lbr, f_in.server_now, f_in.local_now)) = Valid

\* ---- C12
\* C12: the close time of a monthly bar that opens on any day of month m of
\* year y is day 1 of the next calendar month, (y, m + 1, 1) for m < 12 and
\* (y + 1, 1, 1) for m = 12, at midnight; a bar that opens on 2024-01-31 closes
\* on 2024-02-01 and one that opens on 2024-12-15 closes on 2025-01-01.
C12_MonthCloseIsNextMonth ==
    close_in.set /\ close_in.done /\ close_in.p.timeframe = "Months" =>
        LET open == DateOf(utcfromtimestamp(close_in.bar.time))
            close == DateOf(close_out.dt)
        IN  /\ ~close_out.raised
            /\ close.day = 1 /\ TimeOf(close_out.dt) = 0
            /\ open.month < 12 => close.year = open.year /\ close.month = open.month + 1
            /\ open.month = 12 => close.year = open.year + 1 /\ close.month = 1
            /\ close_in.bar.time \div DaySecs = 19753 => close_out.dt = 19754 * DayLen
            /\ close_in.bar.time \div DaySecs = 20072 => close_out.dt = 20089 * DayLen

\* the bar opened on 2024-12-15, after midnight, and its close time is 2025-01-01
C12_Witness ==
    /\ close_in.set /\ close_in.done
    /\ DateOf(utcfromtimestamp(close_in.bar.time)) = [year |-> 2024, month |-> 12, day |-> 15]
    /\ TimeOf(utcfromtimestamp(close_in.bar.time)) > 0
    /\ DateOf(close_out.dt) = [year |-> 2025, month |-> 1, day |-> 1]

\* ---- C13
\* C13: timeframe_to_timedelta of a month or year timeframe raises and returns
\* no duration; so the stream_bars thread of a scheduled feed on such a
\* timeframe fails before its first wait or fetch and never appends an entry to
\* the inbox, and every poll call of that feed returns None.
C13_CalendarPollerFails ==
    /\ \A timeframe \in {"Months", "Years"} : \A compression \in {1, 2, 5, 60} :
           timeframe_to_timedelta(timeframe, compression).raised
    /\ \A f \in ScheduleFeeds :
           params(f).timeframe \in {"Months", "Years"} =>
              /\ thread_pc[f] \in {"none", "init", "failed"}
              /\ \A i \in 1..Len(new_bars) : new_bars[i].guid # GuidOf(f)
              /\ ~(host_pc \in {"claim", "filter"} /\ host_f = f)
              /\ (host_pc = "idle" /\ host_f = f) => (ret = "None" /\ branch = "nothing")

\* the thread of the scheduled feed, on a monthly timeframe, has failed; the
\* feed was polled, with an entry of the subscribed feed in the inbox, and
\* returned None
C13_Witness ==
    /\ params("poll").timeframe = "Months"
    /\ thread_pc["poll"] = "failed"
    /\ feed_state["poll"] = "started"
    /\ host_pc = "idle" /\ host_f = "poll" /\ ret = "None"
    /\ Len(new_bars) >= 1

\* ---- C14
\* C14: whatever the interleaving of the appends of OnNewBar and stream_bars
\* with the scan and the removal of _load, no entry is lost or duplicated: every
\* entry ever appended is either in the inbox exactly once and not taken, or
\* not in the inbox and taken exactly once; the entry a poll call is about to
\* remove is of the polling feed's handle and still in the inbox.
C14_NoEntryLostOrDuplicated ==
    /\ \A i \in 1..MaxEntries :
           LET in_inbox == Cardinality({k \in 1..Len(new_bars) : new_bars[k].id = i})
           IN  IF i < next_id THEN in_inbox + taken[i] = 1
               ELSE in_inbox = 0 /\ taken[i] = 0
    /\ host_pc = "claim" =>
           /\ Own(host_f, FirstSelected(new_bars_l))
           /\ taken[FirstSelected(new_bars_l).id] = 0
           /\ Cardinality({k \in 1..Len(new_bars) :
                               new_bars[k].id = FirstSelected(new_bars_l).id}) = 1
    /\ host_pc = "filter" =>
           /\ taken[FirstSelected(new_bars_l).id] = 1
           /\ FirstSelected(new_bars_l).id \notin Ids(new_bars)

\* a poll call took the first entry; the next one has scanned the inbox and,
\* before it removes its entry, a producer appended another entry of the same feed
C14_Witness ==
    /\ host_pc = "claim"
    /\ taken[1] = 1
    /\ \E k \in 1..Len(new_bars) :
           Own(host_f, new_bars[k]) /\ new_bars[k].id \notin Ids(new_bars_l)

\* ---- C15
\* C15 (amended): after a live poll call that takes an entry, last_bar_received
\* is true exactly when the entry taken was the only entry of the feed's handle
\* the call found in the inbox: none of the entries it selected is left after
\* the removal.
C15_LastBarIsSoleSelected ==
    [][\A f \in LiveFeeds :
         ClaimStep(f) =>
            /\ last_bar_received'[f] = (Len(new_bars_l) = 1)
            /\ last_bar_received'[f] =
                  ({e \in Range(new_bars') : Own(f, e) /\ e.id \in Ids(new_bars_l)} = {})]_vars

\* the scheduled feed took and emitted the first of its two entries: one entry
\* of its handle remains and last_bar_received is false
C15_Witness ==
    /\ host_pc = "idle" /\ host_f = "poll" /\ branch = "emitted"
    /\ ~last_bar_received["poll"]
    /\ Len(ScanInbox("poll", guid["poll"], new_bars)) = 1
    /\ taken[1] = 1 /\ next_id = 3

\* C15 as claimed: after a poll call that takes an entry, last_bar_received is
\* true exactly when one entry of the feed's handle remains after the removal
C15_LastBarIsOneRemaining ==
    [][\A f \in LiveFeeds :
         ClaimStep(f) =>
            last_bar_received'[f] = (Len(ScanInbox(f, guid[f], new_bars')) = 1)]_vars

\* ---- C16
\* C16: on every live poll call that emits a bar: with last_bar_received true
\* and live_mode false, LIVE is queued and live_mode becomes true; with
\* live_mode true and last_bar_received false, DELAYED is queued and live_mode
\* becomes false; otherwise nothing is queued and live_mode stays. The bar is
\* the output record when the call returns.
C16_TransitionOnEmit ==
    [][\A f \in LiveFeeds :
         (FilterStep(f) /\ ret' = "True") =>
            /\ (last_bar_received[f] /\ ~live_mode[f]) =>
                   feed_notifs'[f] = Append(feed_notifs[f], LIVE) /\ live_mode'[f]
            /\ (live_mode[f] /\ ~last_bar_received[f]) =>
                   feed_notifs'[f] = Append(feed_notifs[f], DELAYED) /\ ~live_mode'[f]
            /\ (last_bar_received[f] = live_mode[f]) =>
                   feed_notifs'[f] = feed_notifs[f] /\ live_mode'[f] = live_mode[f]
            /\ lines'[f] = BarLines(params(f), FirstSelected(new_bars_l).data)]_vars

\* the scheduled feed went live on a lone entry and then, emitting the first of
\* two entries, back to delayed
C16_Witness ==
    /\ host_pc = "idle" /\ host_f = "poll" /\ branch = "emitted"
    /\ feed_notifs["poll"] = <<DELAYED, CONNECTED, LIVE, DELAYED>>
    /\ ~live_mode["poll"]

\* ---- C17
\* C17: a live poll call made when the inbox is empty or holds no entry of the
\* feed's handle returns None within the call, and leaves the inbox,
\* dt_last_open, live_mode, last_bar_received, the output record and the
\* notification queues as they were, however many such calls follow each other.
C17_EmptyPollChangesNothing ==
    [][\A f \in LiveFeeds :
         (/\ host_pc = "idle" /\ host_f' = f
          /\ <<ret, host_f, branch, last_bar_received>>' # <<ret, host_f, branch, last_bar_received>>
          /\ \A i \in 1..Len(new_bars) : ~Own(f, new_bars[i])) =>
            /\ ret' = "None" /\ branch' = "nothing"
            /\ host_pc' = "idle"
            /\ UNCHANGED <<new_bars, dt_last_open, live_mode, last_bar_received, lines,
                           feed_notifs, notifs, emitted, taken>>]_vars

\* the subscribed feed is live on its last bar; it was polled again while the
\* inbox held only an entry of the other feed, and returned None
C17_Witness ==
    /\ host_pc = "idle" /\ host_f = "sub" /\ branch = "nothing" /\ ret = "None"
    /\ Len(new_bars) >= 1
    /\ \A i \in 1..Len(new_bars) : ~Own("sub", new_bars[i])
    /\ live_mode["sub"] /\ last_bar_received["sub"]
    /\ Len(emitted["sub"]) >= 1

\* ---- C18
\* C18: of several entries of the feed's handle the poll call takes the one
\* that was appended first, whatever the open times: every entry of the
\* handle left in the inbox was appended after the one taken, so the entries of
\* a handle are taken in the order of their appends.
C18_OldestEnqueuedFirst ==
    [][\A f \in LiveFeeds :
         ClaimStep(f) =>
            LET own == SelectSeq(new_bars, LAMBDA e : Own(f, e))
            IN  /\ Len(own) >= 1
                /\ Gone(new_bars, new_bars') = {own[1]}
                /\ taken'[own[1].id] = taken[own[1].id] + 1
                /\ \A e \in Range(new_bars') : Own(f, e) => e.id > own[1].id]_vars

\* the scheduled feed emitted the entry appended first although an entry of its
\* handle with an earlier open time was in the inbox, where it still is
C18_Witness ==
    /\ host_pc = "idle" /\ host_f = "poll" /\ branch = "emitted"
    /\ taken[1] = 1
    /\ \E i \in 1..Len(new_bars) :
           /\ Own("poll", new_bars[i])
           /\ new_bars[i].id = 2
           /\ get_bar_open_date_time(params("poll"), new_bars[i].data)
                  < lines["poll"].datetime
    /\ ~last_bar_received["poll"]

\* ---- C19
\* C19: in the loop of stream_bars a fetch that returns nothing or an empty
\* history appends nothing and leads back to the wait; a fetch that returns bars
\* appends exactly one entry, at the end of the inbox, holding the first bar
\* returned and the feed's own provider name and guid, and leads back to the
\* wait; the thread leaves the loop only from the wait, with exit_event set.
C19_PollerLoop ==
    [][\A f \in ScheduleFeeds :
         /\ (thread_pc[f] = "fetch" /\ thread_pc'[f] \notin {"fetch", "failed"}) =>
               /\ new_bars' = new_bars /\ next_id' = next_id
               /\ \/ thread_pc'[f] = "wait" /\ thread_bars'[f] = <<>>
                  \/ thread_pc'[f] = "append" /\ Len(thread_bars'[f]) >= 1
         /\ (thread_pc[f] = "append" /\ thread_pc'[f] # "append") =>
               /\ thread_pc'[f] = "wait"
               /\ Len(new_bars') = Len(new_bars) + 1
               /\ SubSeq(new_bars', 1, Len(new_bars)) = new_bars
               /\ LET e == new_bars'[Len(new_bars')]
                  IN  /\ e.data = thread_bars[f][1]
                      /\ e.provider_name = params(f).provider_name
                      /\ e.guid = guid[f] /\ guid[f] = GuidOf(f)
         /\ (thread_pc[f] \in {"wait", "fetch", "append"}
                /\ thread_pc'[f] \notin {"wait", "fetch", "append"}) =>
               /\ thread_pc[f] = "wait" /\ exit_event[f] /\ thread_pc'[f] = "exited"]_vars

\* ---- C20
\* C20: after Store.stop the inbox holds no entries.
C20_InboxEmptyAfterStoreStop ==
    store_state = "stopped" => new_bars = <<>>

\* ---- C21
\* C21: a feed with live_bars false never enters live mode: over any start,
\* poll and stop calls its live_mode stays false, it queues no LIVE, it gets no
\* guid and starts no stream_bars thread, and its poll calls leave the shared
\* inbox and what was taken from it as they are.
C21_HistoricalNeverLive ==
    [][\A f \in HistFeeds :
         /\ ~live_mode[f] /\ ~live_mode'[f]
         /\ ~last_bar_received'[f]
         /\ Count(feed_notifs'[f], LIVE) = 0
         /\ guid'[f] = None
         /\ thread_pc'[f] = "none" /\ ~exit_event'[f]
         /\ n_polls'[f] # n_polls[f] =>
               /\ new_bars' = new_bars
               /\ taken' = taken
               /\ new_bars_l' = new_bars_l]_vars

\* the historical feed has replayed two bars, ended and been stopped while the
\* inbox held two entries of the subscribed feed
C21_Witness ==
    /\ feed_state["hist"] = "stopped"
    /\ Len(emitted["hist"]) = 2 /\ n_polls["hist"] = 3
    /\ Len(new_bars) = 2 /\ next_id = 3

\* ---- C22
\* the LIVE and DELAYED statuses the poll calls of a feed have queued: those
\* behind the DELAYED and CONNECTED of start
PollStatuses(f) ==
    SelectSeq(SubSeq(feed_notifs[f], 3, Len(feed_notifs[f])),
              LAMBDA x : x \in {LIVE, DELAYED})

\* C22: over any run of a live feed the LIVE and DELAYED statuses queued by its
\* poll calls alternate, the first being LIVE, and live_mode is true exactly
\* when the latest of them is LIVE.
C22_LiveDelayedAlternate ==
    \A f \in LiveFeeds :
        LET q == PollStatuses(f)
        IN  /\ \A i \in 1..Len(q) : q[i] = (IF i % 2 = 1 THEN LIVE ELSE DELAYED)
            /\ live_mode[f] = (Len(q) > 0 /\ q[Len(q)] = LIVE)
            /\ Len(feed_notifs[f]) >= 2 =>
                   feed_notifs[f][1] = DELAYED /\ feed_notifs[f][2] = CONNECTED

\* the subscribed feed went live on a lone entry, back to delayed on the first
\* of two entries, live again on the second, and back to delayed on the first
\* of two more
C22_Witness ==
    /\ feed_notifs["sub"] = <<DELAYED, CONNECTED, LIVE, DELAYED, LIVE, DELAYED>>
    /\ ~live_mode["sub"] /\ ~last_bar_received["sub"]
    /\ Len(emitted["sub"]) = 4
    /\ Len(new_bars) = 1

\* ---- C23
\* C23: a live poll call whose bar the session filter rejects, or whose bar is
\* no newer than dt_last_open, returns None and leaves dt_last_open, live_mode,
\* the output record and the notification queues as they were, in the scan
\* that sets last_bar_received as in the rest of the call; it removes one entry
\* from the inbox, and so causes no transition.
C23_RejectedBarChangesNothing ==
    [][\A f \in LiveFeeds :
         /\ (host_pc = "idle" /\ host_pc' = "claim" /\ host_f' = f) =>
               UNCHANGED <<new_bars, dt_last_open, live_mode, lines, feed_notifs, notifs,
                           emitted, ret>>
         /\ ClaimStep(f) =>
               /\ UNCHANGED <<dt_last_open, live_mode, lines, feed_notifs, notifs, emitted,
                              ret, last_bar_received>>
               /\ Len(new_bars') = Len(new_bars) - 1
         /\ FilterStep(f) =>
            LET p == params(f)
                bar == FirstSelected(new_bars_l).data
                open_time == get_bar_open_date_time(p, bar)
                close_time == get_bar_close_date_time(p, open_time).dt
                rejected == Rule1(p, open_time) \/ Rule2(p, close_time) \/ Rule3(p, bar)
                stale == open_time <= dt_last_open[f]
            IN  /\ (rejected \/ stale) => ret' = "None"
                /\ ret' # "True" =>
                      /\ ret' = "None"
                      /\ UNCHANGED <<dt_last_open, live_mode, lines, feed_notifs, notifs,
                                     emitted, last_bar_received, new_bars>>]_vars

\* the scheduled feed, live, took the first of two entries and discarded it as
\* stale: last_bar_received is false and the feed is still live
C23_Witness ==
    /\ host_pc = "idle" /\ host_f = "poll" /\ branch = "stale" /\ ret = "None"
    /\ live_mode["poll"] /\ ~last_bar_received["poll"]
    /\ feed_notifs["poll"] = <<DELAYED, CONNECTED, LIVE>>

====
